---- MODULE Spec2Model ----
(***************************************************************************)
(* Atlas Life (Gestor Unificado v1.01): the goal ledger, its persistence   *)
(* under a password-derived key, and the patrimony aggregate.               *)
(*                                                                         *)
(* Money is counted in whole units; a timestamp ("data", an ISO string in  *)
(* the program, parsed back by parse_tx_datetime before it is compared) is *)
(* the number of the minute it names.                                      *)
(***************************************************************************)
EXTENDS Integers, Sequences, FiniteSets, TLC

\* ---------------------------------------------------------------- bounds
MaxLen == 3      \* longest history handed to rebuild_goal_state on its own
MaxData == 2     \* timestamps are 1..MaxData
MaxValor == 2    \* amounts typed into a number input are at most MaxValor
MaxHist == 2     \* entries the table goals may hold, all goals together
MaxGoals == 1    \* goals created with "Criar Meta" that may exist at once
MaxLevel == 3    \* totals handed to get_level_info reach the threshold of this level
MaxObjetivo == 4 \* the expand buttons raise a target no further than this

Datas == 1..MaxData
Tipos == {"Aporte", "Retirada", "Ajuste"}

\* ------------------------------------------------- rebuild_goal_state
\* _dt_of: the sort key of an entry, its parsed "data".
DtOf(x) == x.data

\* list.sort(key=_dt_of) is stable: an entry goes behind every entry whose
\* key is not greater than its own.
\* An unstable sort: an entry goes before the entries of its own key.
RECURSIVE InsertByKey_Unstable(_, _)
InsertByKey_Unstable(sorted, e) ==
    IF sorted = <<>> THEN <<e>>
    ELSE IF DtOf(Head(sorted)) < DtOf(e)
         THEN <<Head(sorted)>> \o InsertByKey_Unstable(Tail(sorted), e)
         ELSE <<e>> \o sorted

RECURSIVE InsertByKey(_, _)
InsertByKey(sorted, e) ==
    IF sorted = <<>> THEN <<e>>
    ELSE IF DtOf(Head(sorted)) <= DtOf(e)
         THEN <<Head(sorted)>> \o InsertByKey(Tail(sorted), e)
         ELSE <<e>> \o sorted

RECURSIVE SortHistorico(_)
SortHistorico(h) ==
    IF h = <<>> THEN <<>>
    ELSE InsertByKey(SortHistorico(SubSeq(h, 1, Len(h) - 1)), h[Len(h)])

\* An Ajuste taken as a delta instead of an absolute reset.
ApplyEntry_AjusteDelta(current, e) ==
    CASE e.tipo = "Aporte" -> current + e.valor
      [] e.tipo = "Retirada" -> current - e.valor
      [] e.tipo = "Ajuste" -> current + e.valor
      [] OTHER -> current

\* One pass of the loop body: the running total after entry e.
ApplyEntry(current, e) ==
    CASE e.tipo = "Aporte" -> current + e.valor
      [] e.tipo = "Retirada" -> current - e.valor
      [] e.tipo = "Ajuste" -> e.valor
      [] OTHER -> current

\* A loop that trusts the running total an entry already carries.
RECURSIVE Accumulate_Stale(_, _)
Accumulate_Stale(h, current) ==
    IF h = <<>> THEN <<>>
    ELSE LET e == Head(h)
             r == IF "valor_acumulado" \in DOMAIN e THEN e.valor_acumulado
                  ELSE ApplyEntry(current, e)
         IN <<[uid |-> e.uid, data |-> e.data, tipo |-> e.tipo,
               valor |-> e.valor, valor_acumulado |-> r]>>
            \o Accumulate_Stale(Tail(h), r)

\* The loop over the sorted history: every entry gets the running total
\* that follows it.
RECURSIVE Accumulate(_, _)
Accumulate(h, current) ==
    IF h = <<>> THEN <<>>
    ELSE LET r == ApplyEntry(current, Head(h))
         IN <<[uid |-> Head(h).uid, data |-> Head(h).data, tipo |-> Head(h).tipo,
               valor |-> Head(h).valor, valor_acumulado |-> r]>>
            \o Accumulate(Tail(h), r)

\* The value of the local "current" when the loop ends.
RECURSIVE FinalCurrent(_, _)
FinalCurrent(h, current) ==
    IF h = <<>> THEN current
    ELSE FinalCurrent(Tail(h), ApplyEntry(current, Head(h)))

\* A rebuild that patches the stored balance instead of starting from 0.
rebuild_goal_state_Incremental(goal) ==
    LET sorted == SortHistorico(goal.historico)
    IN [goal EXCEPT !.historico = Accumulate(sorted, goal.atual),
                    !.atual = FinalCurrent(sorted, goal.atual)]

rebuild_goal_state(goal) ==
    LET sorted == SortHistorico(goal.historico)
    IN [goal EXCEPT !.historico = Accumulate(sorted, 0),
                    !.atual = FinalCurrent(sorted, 0)]

\* ------------------------------------------------------ get_level_info
\* A float that holds an amount of money: a whole number of cents, and the
\* units in the last place by which the sums that produced it left it
\* beside that decimal (380.9 + 13.96 + 5.14 is one such unit below 400.0).
\* A unit in the last place is smaller than any cent.
Fl(c, u) == [cents |-> c, ulps |-> u]
FlLt(x, y) == x.cents < y.cents \/ (x.cents = y.cents /\ x.ulps < y.ulps)
FlLe(x, y) == x = y \/ FlLt(x, y)
FlSub(x, y) == Fl(x.cents - y.cents, x.ulps - y.ulps)

LEVEL_BASE_VALUE == 100
LEVEL_GROWTH_FACTOR == 2

RECURSIVE Pow(_, _)
Pow(b, n) == IF n = 0 THEN 1 ELSE b * Pow(b, n - 1)

\* LEVEL_BASE_VALUE * (LEVEL_GROWTH_FACTOR ** level), in cents.
LevelMin(level) == Fl(LEVEL_BASE_VALUE * 100 * Pow(LEVEL_GROWTH_FACTOR, level), 0)

\* The whole part of the exact logarithm: the k with G^k <= t/B < G^(k+1).
RECURSIVE ExactLogInt(_, _)
ExactLogInt(t, k) ==
    IF FlLt(t, LevelMin(k + 1)) THEN k ELSE ExactLogInt(t, k + 1)

\* int(math.log(t / B, G)): math.log divides two rounded logarithms and
\* rounds again, and from G^2 on the float next below a power G^k gets
\* the logarithm k itself.
LogInt(t) ==
    LET k == ExactLogInt(t, 0)
    IN IF k + 1 >= 2 /\ t = Fl(LevelMin(k + 1).cents, -1) THEN k + 1 ELSE k

\* A scoring that counts the base bracket as level 1 and the brackets above
\* it from 0.
get_level_info_BaseIsLevelOne(total_patrimony) ==
    LET t == IF FlLt(total_patrimony, Fl(10, 0)) THEN Fl(10, 0) ELSE total_patrimony
    IN IF FlLt(t, LevelMin(0))
       THEN [level |-> 1, current_level_min |-> Fl(0, 0),
             needed |-> FlSub(LevelMin(0), t),
             progress |-> [num |-> t, den |-> LevelMin(0)]]
       ELSE LET level == LogInt(t)
                current_level_min == LevelMin(level)
                next_level_min == LevelMin(level + 1)
                num == FlSub(t, current_level_min)
                den == FlSub(next_level_min, current_level_min)
            IN [level |-> level, current_level_min |-> current_level_min,
                needed |-> FlSub(next_level_min, t),
                progress |-> [num |-> IF FlLt(den, num) THEN den ELSE num,
                              den |-> den]]

\* get_level_info: (level, current_level_min, needed, progress); progress
\* is the fraction num / den.
get_level_info(total_patrimony) ==
    LET t == IF FlLt(total_patrimony, Fl(10, 0)) THEN Fl(10, 0) ELSE total_patrimony
    IN IF FlLt(t, LevelMin(0))
       THEN [level |-> 0, current_level_min |-> Fl(0, 0),
             needed |-> FlSub(LevelMin(0), t),
             progress |-> [num |-> t, den |-> LevelMin(0)]]
       ELSE LET level == LogInt(t) + 1
                current_level_min == LevelMin(level - 1)
                next_level_min == LevelMin(level)
                num == FlSub(t, current_level_min)
                den == FlSub(next_level_min, current_level_min)
            IN [level |-> level, current_level_min |-> current_level_min,
                needed |-> FlSub(next_level_min, t),
                progress |-> [num |-> IF FlLt(den, num) THEN den ELSE num,
                              den |-> den]]

\* ------------------------------------------------- strings and crypto
\* Python strings the program builds and parses: "" is <<>>, json.dumps(v)
\* is <<"json", v>>, str(float(x)) is <<"float", x>>.
EmptyStr == <<>>
json_dumps(v) == <<"json", v>>
json_loads(s) == s[2]
str_float(x) == <<"float", x>>
float_of(s) == s[2]

\* The value decrypt returns when Fernet raises.
None == <<"None">>

\* "if dec:" -- neither None nor the empty string.
Truthy(dec) == dec # None /\ dec # EmptyStr

\* PBKDF2HMAC(password, salt): a function of both.
DeriveKey(password, salt) == <<password, salt>>

\* A constructor that draws and writes a salt every time.
SaltFileAfter_Fresh(file, urandom) == <<urandom>>

\* DataProtector.__init__: the salt the protector ends up with, given what
\* the salt file holds (<<>>: no file) and what os.urandom would return.
SaltFileAfter(file, urandom) == IF file = <<>> THEN <<urandom>> ELSE file

DataProtector(user_password, file, urandom) ==
    DeriveKey(user_password, SaltFileAfter(file, urandom)[1])

\* Fernet's HMAC over the ciphertext, under the key of the protector.
Tag(key, data_str) == <<"hmac", key, data_str>>

\* fernet.encrypt: the token of a plaintext under a key, with its tag.
FernetToken(key, data_str) == <<"fernet", key, data_str, Tag(key, data_str)>>

\* DataProtector.encrypt: the empty string is returned as it is.
encrypt(key, data_str) ==
    IF data_str = EmptyStr THEN EmptyStr ELSE FernetToken(key, data_str)

\* A decrypt that hands back Fernet's bytes without .decode("utf-8").
decrypt_NoDecode(key, encrypted_str) ==
    IF encrypted_str = EmptyStr THEN EmptyStr
    ELSE IF /\ Len(encrypted_str) = 4
            /\ encrypted_str[1] = "fernet"
            /\ encrypted_str[2] = key
            /\ encrypted_str[4] = Tag(key, encrypted_str[3])
         THEN <<"bytes", encrypted_str[3]>>
         ELSE None

\* A decrypt that opens a token whatever key sealed it.
decrypt_AnyKey(key, encrypted_str) ==
    IF encrypted_str = EmptyStr THEN EmptyStr
    ELSE IF /\ Len(encrypted_str) = 4
            /\ encrypted_str[1] = "fernet"
            /\ encrypted_str[4] = Tag(encrypted_str[2], encrypted_str[3])
         THEN encrypted_str[3]
         ELSE None

\* A decrypt that does not verify the tag.
decrypt_NoTagCheck(key, encrypted_str) ==
    IF encrypted_str = EmptyStr THEN EmptyStr
    ELSE IF /\ Len(encrypted_str) = 4
            /\ encrypted_str[1] = "fernet"
            /\ encrypted_str[2] = key
         THEN encrypted_str[3]
         ELSE None

\* DataProtector.decrypt: the empty string for an empty input; the
\* plaintext of a whole token whose tag verifies under the key; None for
\* whatever makes Fernet raise.
decrypt(key, encrypted_str) ==
    IF encrypted_str = EmptyStr THEN EmptyStr
    ELSE IF /\ Len(encrypted_str) = 4
            /\ encrypted_str[1] = "fernet"
            /\ encrypted_str[2] = key
            /\ encrypted_str[4] = Tag(key, encrypted_str[3])
         THEN encrypted_str[3]
         ELSE None

\* apps/GestorMetas.py, DataProtector.encrypt: every string goes to Fernet.
GestorMetas_encrypt(key, data_str) == FernetToken(key, data_str)

\* apps/GestorMetas.py, DataProtector.decrypt: every string goes to Fernet,
\* which raises on the empty one.
GestorMetas_decrypt(key, encrypted_str) ==
    IF /\ Len(encrypted_str) = 4
       /\ encrypted_str[1] = "fernet"
       /\ encrypted_str[2] = key
       /\ encrypted_str[4] = Tag(key, encrypted_str[3])
    THEN encrypted_str[3]
    ELSE None

\* bcrypt.hashpw / bcrypt.checkpw.
hashpw(password) == <<"bcrypt", password>>
checkpw(password, hash) == hash = <<"bcrypt", password>>

\* ------------------------------------------------------- the database
\* db = [users |-> username -> row, goals |-> id -> row]
default_profile == "default_profile"

RECURSIVE SumAtual(_)
SumAtual(S) ==
    IF S = {} THEN 0
    ELSE LET m == CHOOSE x \in S : TRUE IN m.atual + SumAtual(S \ {m})

\* A get_goals that gives up on the first row that does not open.
get_goals_AllOrNothing(db, username, protector) ==
    IF \E i \in DOMAIN db.goals :
          /\ db.goals[i].owner = username
          /\ ~Truthy(decrypt(protector, db.goals[i].encrypted_payload))
    THEN {}
    ELSE {json_loads(decrypt(protector, db.goals[id].encrypted_payload)) :
             id \in {i \in DOMAIN db.goals : db.goals[i].owner = username}}

\* get_goals: the goals of the rows of this owner that open under the key.
get_goals(db, username, protector) ==
    {json_loads(decrypt(protector, db.goals[id].encrypted_payload)) :
        id \in {i \in DOMAIN db.goals :
                   /\ db.goals[i].owner = username
                   /\ Truthy(decrypt(protector, db.goals[i].encrypted_payload))}}

\* set_user_patrimony: UPDATE users ... WHERE username = ?
set_user_patrimony(db, username, total, protector) ==
    IF username \in DOMAIN db.users
    THEN [db EXCEPT !.users[username].total_patrimony_enc =
                        encrypt(protector, str_float(total))]
    ELSE db

PatrimonioTotal(metas) == SumAtual({m \in metas : m.tipo = "Patrimônio"})

sync_global_patrimony(db, username, protector) ==
    set_user_patrimony(db, username,
                       PatrimonioTotal(get_goals(db, username, protector)),
                       protector)

\* INSERT OR REPLACE INTO goals (id, owner, encrypted_payload)
ReplaceGoalRow(db, username, goal_dict, protector) ==
    [db EXCEPT !.goals =
        [id \in DOMAIN db.goals \cup {goal_dict.id} |->
            IF id = goal_dict.id
            THEN [owner |-> username,
                  encrypted_payload |-> encrypt(protector, json_dumps(goal_dict))]
            ELSE db.goals[id]]]

save_goal(db, username, goal_dict, protector) ==
    sync_global_patrimony(ReplaceGoalRow(db, username, goal_dict, protector),
                          username, protector)

\* DELETE FROM goals WHERE id = ?
DeleteGoalRow(db, goal_id) ==
    [db EXCEPT !.goals = [id \in DOMAIN db.goals \ {goal_id} |-> db.goals[id]]]

delete_goal(db, username, goal_id, protector) ==
    IF \E m \in get_goals(db, username, protector) : m.id = goal_id /\ m.is_default
    THEN db
    ELSE sync_global_patrimony(DeleteGoalRow(db, goal_id), username, protector)

\* get_user_patrimony: 0.0 for a missing row, an empty column or a token
\* that does not open.
get_user_patrimony(db, username, protector) ==
    IF username \in DOMAIN db.users
       /\ db.users[username].total_patrimony_enc # EmptyStr
    THEN LET dec == decrypt(protector, db.users[username].total_patrimony_enc)
         IN IF Truthy(dec) THEN float_of(dec) ELSE 0
    ELSE 0

\* get_user_profile / save_user_profile
get_user_profile(db, username, protector) ==
    IF username \in DOMAIN db.users
       /\ db.users[username].encrypted_profile # EmptyStr
    THEN LET dec == decrypt(protector, db.users[username].encrypted_profile)
         IN IF Truthy(dec) THEN json_loads(dec) ELSE default_profile
    ELSE default_profile

save_user_profile(db, username, profile, protector) ==
    IF username \in DOMAIN db.users
    THEN [db EXCEPT !.users[username].encrypted_profile =
                        encrypt(protector, json_dumps(profile))]
    ELSE db

\* ------------------------------------------------------------- state
VARIABLES
    users,        \* table users: username -> row
    goals,        \* table goals: id -> row
    salt_file,    \* key/salt.bin: <<>> while it does not exist, else <<salt>>
    logged_in,    \* st.session_state.logged_in
    username,     \* st.session_state.username ("" before the first login)
    protector,    \* st.session_state.protector: its key (NoKey before the first login)
    active_goal,  \* st.session_state.active_goal (NoGoal for None)
    msg,          \* what the last handler passed to st.error ("" when nothing)
    arg,          \* the goal handed to rebuild_goal_state
    ret,          \* <<g>> once rebuild_goal_state returned g for arg, <<>> before
    ret2          \* <<g>> once it returned g when handed ret[1], <<>> before

appVars == <<users, goals, salt_file, logged_in, username, protector, active_goal, msg>>
fnVars == <<arg, ret, ret2>>
vars == <<appVars, fnVars>>

db == [users |-> users, goals |-> goals]

Usernames == {"ana"}
Passwords == {"pA", "pB"}
Salts == {"s1", "s2"}
Nomes == {"Reserva"}
Objetivos == {0}
GoalTipos == {"Patrimônio", "Aporte Periódico"}
NoKey == <<"", "">>
NoGoal == ""

\* str(datetime.now().timestamp()): the ids "Criar Meta" hands out, in order.
TimestampIds == <<"1769332500.1", "1769332500.2", "1769332500.3">>

\* f"default-patrimony-{nu}"
DefaultGoalId(nu) ==
    CASE nu = "ana" -> "default-patrimony-ana"
      [] OTHER -> "default-patrimony-"

CreatedIds == {TimestampIds[i] : i \in 1..Len(TimestampIds)} \cap DOMAIN goals

\* The next timestamp: ids still in the table are never handed out again.
FreshGoalId ==
    TimestampIds[CHOOSE i \in 1..Len(TimestampIds) :
                    /\ TimestampIds[i] \notin DOMAIN goals
                    /\ \A j \in 1..(i - 1) : TimestampIds[j] \in DOMAIN goals]

\* The uid of a new entry, a timestamp: one no entry of the goal carries.
FreshUid(h) ==
    CHOOSE n \in 1..(Len(h) + 1) :
        /\ \A i \in 1..Len(h) : h[i].uid # n
        /\ \A k \in 1..(n - 1) : \E i \in 1..Len(h) : h[i].uid = k

\* An entry as the handlers append it: no valor_acumulado yet.
NewEntry(uid, data, tipo, valor) ==
    [uid |-> uid, data |-> data, tipo |-> tipo, valor |-> valor]

\* The number of entries stored in the table, whatever key seals them.
RECURSIVE CountEntries(_)
CountEntries(ids) ==
    IF ids = {} THEN 0
    ELSE LET id == CHOOSE x \in ids : TRUE
         IN Len(goals[id].encrypted_payload[3][2].historico) + CountEntries(ids \ {id})

RoomForEntry == CountEntries(DOMAIN goals) < MaxHist

\* metas = get_goals(username, protector), read at the start of every run.
Metas == get_goals(db, username, protector)

\* goal = next((x for x in metas if x["id"] == active_goal), None)
HasActiveGoal == logged_in /\ active_goal # NoGoal /\ \E m \in Metas : m.id = active_goal
ActiveGoal == CHOOSE m \in Metas : m.id = active_goal

Persist(newdb) == users' = newdb.users /\ goals' = newdb.goals

Init ==
    /\ users = << >>
    /\ goals = << >>
    /\ salt_file = <<>>
    /\ logged_in = FALSE
    /\ username = ""
    /\ protector = NoKey
    /\ active_goal = NoGoal
    /\ msg = ""
    /\ arg = <<>>
    /\ ret = <<>>
    /\ ret2 = <<>>

\* ------------------------------------------------------ do_login_screen
\* An "Entrar" that tells an unknown username from a wrong password.
Entrar_TellsUnknown(u, p) ==
    /\ ~logged_in
    /\ IF u \in DOMAIN users /\ checkpw(p, users[u].password_hash)
       THEN \E urandom \in Salts :
              LET key == DataProtector(p, salt_file, urandom)
                  prof == get_user_profile(db, u, key)
              IN /\ salt_file' = SaltFileAfter(salt_file, urandom)
                 /\ logged_in' = TRUE
                 /\ username' = u
                 /\ protector' = key
                 /\ Persist(save_user_profile(db, u, prof, key))
                 /\ msg' = ""
                 /\ UNCHANGED active_goal
       ELSE /\ msg' = IF u \in DOMAIN users THEN "Erro no login."
                      ELSE "Usuário não encontrado."
            /\ UNCHANGED <<users, goals, salt_file, logged_in, username,
                           protector, active_goal>>
    /\ UNCHANGED fnVars

\* "Entrar"
Entrar(u, p) ==
    /\ ~logged_in
    /\ IF u \in DOMAIN users /\ checkpw(p, users[u].password_hash)
       THEN \E urandom \in Salts :
              LET key == DataProtector(p, salt_file, urandom)
                  prof == get_user_profile(db, u, key)
              IN /\ salt_file' = SaltFileAfter(salt_file, urandom)
                 /\ logged_in' = TRUE
                 /\ username' = u
                 /\ protector' = key
                 /\ Persist(save_user_profile(db, u, prof, key))
                 /\ msg' = ""
                 /\ UNCHANGED active_goal
       ELSE /\ msg' = "Erro no login."
            /\ UNCHANGED <<users, goals, salt_file, logged_in, username,
                           protector, active_goal>>
    /\ UNCHANGED fnVars

DefaultGoal(nu) ==
    [id |-> DefaultGoalId(nu), nome |-> "Patrimônio Total", tipo |-> "Patrimônio",
     objetivo |-> 10000, atual |-> 0, historico |-> <<>>, is_default |-> TRUE]

\* INSERT INTO users: fails on an existing username.
InsertUser(d, nu, p_hash, enc_prof, enc_zero) ==
    IF nu \in DOMAIN d.users THEN d
    ELSE [d EXCEPT !.users =
            [x \in DOMAIN d.users \cup {nu} |->
                IF x = nu
                THEN [password_hash |-> p_hash, encrypted_profile |-> enc_prof,
                      total_patrimony_enc |-> enc_zero]
                ELSE d.users[x]]]

\* "Registrar" of the login screen
RegistrarUsuario(nu, np) ==
    /\ ~logged_in
    /\ \E urandom \in Salts :
          LET tp == DataProtector(np, salt_file, urandom)
              inserted == InsertUser(db, nu, hashpw(np),
                                     encrypt(tp, json_dumps(default_profile)),
                                     encrypt(tp, str_float(0)))
          IN /\ salt_file' = SaltFileAfter(salt_file, urandom)
             /\ msg' = IF nu \in DOMAIN users
                       THEN "Usuário já existe ou erro no registro."
                       ELSE ""
             /\ Persist(save_goal(inserted, nu, DefaultGoal(nu), tp))
    /\ UNCHANGED <<logged_in, username, protector, active_goal, fnVars>>

\* ---------------------------------------------------------- do_main_app
\* "Sair"
Sair ==
    /\ logged_in
    /\ logged_in' = FALSE
    /\ active_goal' = NoGoal
    /\ msg' = ""
    /\ UNCHANGED <<users, goals, salt_file, username, protector, fnVars>>

\* "Criar Meta"
CriarMeta(n_m, t_m, v_m) ==
    /\ logged_in
    /\ Cardinality(CreatedIds) < MaxGoals
    /\ Persist(save_goal(db, username,
                         [id |-> FreshGoalId, nome |-> n_m, tipo |-> t_m,
                          objetivo |-> v_m, atual |-> 0, historico |-> <<>>,
                          is_default |-> FALSE],
                         protector))
    /\ msg' = ""
    /\ UNCHANGED <<salt_file, logged_in, username, protector, active_goal, fnVars>>

\* "Gerenciar"
Gerenciar(id) ==
    /\ logged_in
    /\ \E m \in Metas : m.id = id
    /\ active_goal' = id
    /\ msg' = ""
    /\ UNCHANGED <<users, goals, salt_file, logged_in, username, protector, fnVars>>

\* "Fechar Painel"
FecharPainel ==
    /\ HasActiveGoal
    /\ active_goal' = NoGoal
    /\ msg' = ""
    /\ UNCHANGED <<users, goals, salt_file, logged_in, username, protector, fnVars>>

sessionFrame == <<salt_file, logged_in, username, protector, active_goal, fnVars>>

\* A "Registrar" that does not compare a Retirada with the balance.
RegistrarMovimentacao_NoBalanceCheck(tipo, valor, g_dt) ==
    /\ HasActiveGoal
    /\ RoomForEntry
    /\ LET goal == ActiveGoal
           h == goal.historico
           appended == [goal EXCEPT !.historico =
                           Append(h, NewEntry(FreshUid(h), g_dt, tipo, valor))]
       IN IF valor <= 0
          THEN /\ msg' = "O valor precisa ser maior que zero."
               /\ UNCHANGED <<users, goals>>
          ELSE /\ Persist(save_goal(db, username, rebuild_goal_state(appended), protector))
               /\ msg' = ""
    /\ UNCHANGED sessionFrame

\* "Registrar" of the tab Movimentar (Aporte / Retirada)
RegistrarMovimentacao(tipo, valor, g_dt) ==
    /\ HasActiveGoal
    /\ RoomForEntry
    /\ LET goal == ActiveGoal
           h == goal.historico
           appended == [goal EXCEPT !.historico =
                           Append(h, NewEntry(FreshUid(h), g_dt, tipo, valor))]
       IN IF valor <= 0
          THEN /\ msg' = "O valor precisa ser maior que zero."
               /\ UNCHANGED <<users, goals>>
          ELSE IF tipo = "Retirada" /\ valor > goal.atual
          THEN /\ msg' = "Operação negada! Saldo insuficiente"
               /\ UNCHANGED <<users, goals>>
          ELSE /\ Persist(save_goal(db, username, rebuild_goal_state(appended), protector))
               /\ msg' = ""
    /\ UNCHANGED sessionFrame

Abs(x) == IF x < 0 THEN -x ELSE x

\* A correction that records the informed balance as the amount.
AplicarBalanco_InformedAsAmount(saldo_informado, g_dt) ==
    /\ HasActiveGoal
    /\ RoomForEntry
    /\ LET goal == ActiveGoal
           delta == saldo_informado - goal.atual
           op == IF delta > 0 THEN "Aporte" ELSE "Retirada"
           v == Abs(delta)
           h == goal.historico
           appended == [goal EXCEPT !.historico =
                           Append(h, NewEntry(FreshUid(h), g_dt, op, saldo_informado))]
       IN /\ v <= MaxValor
          /\ IF delta = 0
             THEN /\ msg' = "Nenhuma correção necessária."
                  /\ UNCHANGED <<users, goals>>
             ELSE IF op = "Retirada" /\ v > goal.atual
             THEN /\ msg' = "Operação negada! A correção deixaria saldo negativo."
                  /\ UNCHANGED <<users, goals>>
             ELSE /\ Persist(save_goal(db, username, rebuild_goal_state(appended), protector))
                  /\ msg' = "Balanço aplicado!"
    /\ UNCHANGED sessionFrame

\* "Aplicar Balanço"
AplicarBalanco(saldo_informado, g_dt) ==
    /\ HasActiveGoal
    /\ RoomForEntry
    /\ LET goal == ActiveGoal
           delta == saldo_informado - goal.atual
           op == IF delta > 0 THEN "Aporte" ELSE "Retirada"
           v == Abs(delta)
           h == goal.historico
           appended == [goal EXCEPT !.historico =
                           Append(h, NewEntry(FreshUid(h), g_dt, op, v))]
       IN /\ v <= MaxValor        \* keeps the amounts of the model bounded
          /\ IF delta = 0
             THEN /\ msg' = "Nenhuma correção necessária."
                  /\ UNCHANGED <<users, goals>>
             ELSE IF op = "Retirada" /\ v > goal.atual
             THEN /\ msg' = "Operação negada! A correção deixaria saldo negativo."
                  /\ UNCHANGED <<users, goals>>
             ELSE /\ Persist(save_goal(db, username, rebuild_goal_state(appended), protector))
                  /\ msg' = "Balanço aplicado!"
    /\ UNCHANGED sessionFrame

\* "Salvar Alterações" of the tab Editar Meta
SalvarAlteracoes(new_n, new_o) ==
    /\ HasActiveGoal
    /\ Persist(save_goal(db, username,
                         [ActiveGoal EXCEPT !.nome = new_n, !.objetivo = new_o],
                         protector))
    /\ msg' = ""
    /\ UNCHANGED sessionFrame

\* if atual >= objetivo and objetivo > 0: the two buttons are drawn
ObjetivoAtingido(goal) == goal.atual >= goal.objetivo /\ goal.objetivo > 0

\* "Dobrar Meta (2x)"
DobrarMeta ==
    /\ HasActiveGoal
    /\ LET goal == ActiveGoal
       IN /\ ObjetivoAtingido(goal)
          /\ goal.objetivo * 2 <= MaxObjetivo
          /\ Persist(save_goal(db, username,
                               [goal EXCEPT !.objetivo = @ * 2], protector))
    /\ msg' = ""
    /\ UNCHANGED sessionFrame

\* "Aumentar 50% (1.5x)"; the objetivos of the model are whole numbers
AumentarMeta ==
    /\ HasActiveGoal
    /\ LET goal == ActiveGoal
       IN /\ ObjetivoAtingido(goal)
          /\ (goal.objetivo * 3) % 2 = 0
          /\ (goal.objetivo * 3) \div 2 <= MaxObjetivo
          /\ Persist(save_goal(db, username,
                               [goal EXCEPT !.objetivo = (@ * 3) \div 2], protector))
    /\ msg' = ""
    /\ UNCHANGED sessionFrame

\* "Excluir Meta": the button is drawn only for a goal that is not the default
ExcluirMeta ==
    /\ HasActiveGoal
    /\ LET goal == ActiveGoal
       IN /\ ~goal.is_default
          /\ Persist(delete_goal(db, username, goal.id, protector))
    /\ active_goal' = NoGoal
    /\ msg' = ""
    /\ UNCHANGED <<salt_file, logged_in, username, protector, fnVars>>

\* A check of the tail alone.
AnyNegative_TailOnly(h) == h # <<>> /\ h[Len(h)].valor_acumulado < 0

\* any(float(h.get("valor_acumulado", 0.0)) < 0 for h in goal["historico"])
AnyNegative(h) == \E i \in 1..Len(h) : h[i].valor_acumulado < 0

\* "Salvar Edição" of entry idx
SalvarEdicao(idx, new_v, new_dt) ==
    /\ HasActiveGoal
    /\ LET goal == ActiveGoal
           edited == [goal EXCEPT !.historico[idx].valor = new_v,
                                  !.historico[idx].data = new_dt]
           rebuilt == rebuild_goal_state(edited)
       IN /\ idx \in 1..Len(goal.historico)
          /\ IF AnyNegative(rebuilt.historico)
             THEN /\ msg' = "Erro: essa alteração deixaria o saldo negativo em algum ponto do histórico!"
                  /\ UNCHANGED <<users, goals>>
             ELSE /\ Persist(save_goal(db, username, rebuilt, protector))
                  /\ msg' = ""
    /\ UNCHANGED sessionFrame

\* list.pop(idx)
Pop(h, idx) == SubSeq(h, 1, idx - 1) \o SubSeq(h, idx + 1, Len(h))

\* A delete that saves without rebuilding.
ExcluirRegistro_NoRebuild(idx) ==
    /\ HasActiveGoal
    /\ LET goal == ActiveGoal
       IN /\ idx \in 1..Len(goal.historico)
          /\ Persist(save_goal(db, username,
                               [goal EXCEPT !.historico = Pop(@, idx)], protector))
    /\ msg' = ""
    /\ UNCHANGED sessionFrame

\* "Excluir Registro" of entry idx
ExcluirRegistro(idx) ==
    /\ HasActiveGoal
    /\ LET goal == ActiveGoal
       IN /\ idx \in 1..Len(goal.historico)
          /\ Persist(save_goal(db, username,
                               rebuild_goal_state([goal EXCEPT !.historico = Pop(@, idx)]),
                               protector))
    /\ msg' = ""
    /\ UNCHANGED sessionFrame

\* Names typed into the login form: the registered one and one nobody registers.
LoginUsernames == Usernames \cup {"bia"}

Indices == 1..MaxHist
MovTipos == {"Aporte", "Retirada"}
InputValores == 0..MaxValor
InputSaldos == 0..(MaxHist * MaxValor)
EditValores == 0..MaxValor

Next ==
    \/ \E u \in LoginUsernames, p \in Passwords : Entrar(u, p)
    \/ \E nu \in Usernames, np \in Passwords : RegistrarUsuario(nu, np)
    \/ Sair
    \/ \E n_m \in Nomes, t_m \in GoalTipos, v_m \in Objetivos : CriarMeta(n_m, t_m, v_m)
    \/ \E id \in DOMAIN goals : Gerenciar(id)
    \/ FecharPainel
    \/ \E tipo \in MovTipos, valor \in InputValores, g_dt \in Datas :
          RegistrarMovimentacao(tipo, valor, g_dt)
    \/ \E saldo \in InputSaldos, g_dt \in Datas : AplicarBalanco(saldo, g_dt)
    \/ \E new_n \in Nomes, new_o \in Objetivos : SalvarAlteracoes(new_n, new_o)
    \/ ExcluirMeta
    \/ \E idx \in Indices, new_v \in EditValores, new_dt \in Datas :
          SalvarEdicao(idx, new_v, new_dt)
    \/ \E idx \in Indices : ExcluirRegistro(idx)

Spec == Init /\ [][Next]_vars

\* ------------------------------------------- the tab Editar Meta
\* The application with the buttons of the tab Editar Meta, on goals that
\* receive Aportes and Retiradas at one minute: registrations, sessions,
\* "Criar Meta", "Gerenciar", "Registrar", "Salvar Alterações" and the two
\* buttons drawn once the target is reached.
\* "Alterar Objetivo": no target, or one that an Aporte can reach.
EditObjetivos == {0, 2}

NextEditarMeta ==
    \/ \E u \in Usernames, p \in Passwords : Entrar(u, p)
    \/ \E nu \in Usernames, np \in Passwords : RegistrarUsuario(nu, np)
    \/ Sair
    \/ \E n_m \in Nomes, t_m \in GoalTipos, v_m \in Objetivos : CriarMeta(n_m, t_m, v_m)
    \/ \E id \in DOMAIN goals : Gerenciar(id)
    \/ \E tipo \in MovTipos, valor \in InputValores : RegistrarMovimentacao(tipo, valor, 1)
    \/ \E new_n \in Nomes, new_o \in EditObjetivos : SalvarAlteracoes(new_n, new_o)
    \/ DobrarMeta
    \/ AumentarMeta

SpecEditarMeta == Init /\ [][NextEditarMeta]_vars

\* ------------------------------------------- rebuild_goal_state alone
\* Two different amounts are enough to tell the entries of a history apart.
Valores == {1, 2}
RawEntries == [data : Datas, tipo : Tipos, valor : Valores]

\* Histories in any insertion order; the uid of an entry is its position of
\* insertion, so uids are distinct as the program's timestamps are.
RawHistories ==
    UNION {[1..n -> RawEntries] : n \in 0..MaxLen}

WithUids(h) ==
    [i \in 1..Len(h) |-> NewEntry(i, h[i].data, h[i].tipo, h[i].valor)]

StaleAtual == {0, 1}

InitRebuild ==
    /\ users = << >>
    /\ goals = << >>
    /\ salt_file = <<>>
    /\ logged_in = FALSE
    /\ username = ""
    /\ protector = NoKey
    /\ active_goal = NoGoal
    /\ msg = ""
    /\ \E h \in RawHistories, a \in StaleAtual :
          arg = [id |-> "g", nome |-> "Meta", tipo |-> "Patrimônio", objetivo |-> 0,
                 atual |-> a, historico |-> WithUids(h), is_default |-> FALSE]
    /\ ret = <<>>
    /\ ret2 = <<>>

CallRebuild ==
    /\ ret = <<>>
    /\ ret' = <<rebuild_goal_state(arg)>>
    /\ UNCHANGED <<arg, ret2, appVars>>

CallRebuildAgain ==
    /\ ret # <<>>
    /\ ret2 = <<>>
    /\ ret2' = <<rebuild_goal_state(ret[1])>>
    /\ UNCHANGED <<arg, ret, appVars>>

NextRebuild == CallRebuild \/ CallRebuildAgain

SpecRebuild == InitRebuild /\ [][NextRebuild]_vars

\* ------------------------------------- DataProtector on its own
\* arg names the program whose DataProtector is called, the key that
\* seals, the key that opens and the plaintext;
\* ret is the token encrypt returned; ret2 is the string handed to decrypt
\* (that token, or what is left of it) and what decrypt returned.
CryptoKeys == {DeriveKey(p, salt) : p \in Passwords, salt \in Salts}
Apps == {"AtlasLife", "GestorMetas"}
Plaintexts == {EmptyStr, str_float(0), str_float(1), json_dumps(default_profile)}

\* What may come back from the column instead of the token: a truncated
\* token, one with a changed ciphertext, one with a changed tag, or a string
\* that never was a token.
Damaged(t) ==
    {<<"garbage">>} \cup
    (IF t = EmptyStr THEN {}
     ELSE {SubSeq(t, 1, n) : n \in 1..3}
          \cup {[t EXCEPT ![3] = <<"corrupt">>]}
          \cup {[t EXCEPT ![4] = <<"hmac", "forged">>]})

InitCrypto ==
    /\ users = << >>
    /\ goals = << >>
    /\ salt_file = <<>>
    /\ logged_in = FALSE
    /\ username = ""
    /\ protector = NoKey
    /\ active_goal = NoGoal
    /\ msg = ""
    /\ \E app \in Apps, k1 \in CryptoKeys, k2 \in CryptoKeys, str \in Plaintexts :
          arg = [app |-> app, k1 |-> k1, k2 |-> k2, s |-> str]
    /\ ret = <<>>
    /\ ret2 = <<>>

CallEncrypt ==
    /\ ret = <<>>
    /\ ret' = <<IF arg.app = "GestorMetas"
                THEN GestorMetas_encrypt(arg.k1, arg.s)
                ELSE encrypt(arg.k1, arg.s)>>
    /\ UNCHANGED <<arg, ret2, appVars>>

CallDecrypt ==
    /\ ret # <<>>
    /\ ret2 = <<>>
    /\ \E t \in {ret[1]} \cup Damaged(ret[1]) :
          ret2' = <<t, IF arg.app = "GestorMetas"
                       THEN GestorMetas_decrypt(arg.k2, t)
                       ELSE decrypt(arg.k2, t)>>
    /\ UNCHANGED <<arg, ret, appVars>>

NextCrypto == CallEncrypt \/ CallDecrypt

SpecCrypto == InitCrypto /\ [][NextCrypto]_vars

\* ----------------------------------------- get_level_info on its own
\* arg holds two totals, ret what get_level_info returned for each.
\* The totals: nothing, a few cents, and around and between the thresholds.
TotalCents ==
    {0, 5, 10, 11, 5000} \cup
    UNION {{LevelMin(k).cents - 1, LevelMin(k).cents, LevelMin(k).cents + 1,
            (3 * LevelMin(k).cents) \div 2} : k \in 0..MaxLevel}

Totals == {Fl(c, u) : c \in TotalCents, u \in {-1, 0, 1}}

InitLevel ==
    /\ users = << >>
    /\ goals = << >>
    /\ salt_file = <<>>
    /\ logged_in = FALSE
    /\ username = ""
    /\ protector = NoKey
    /\ active_goal = NoGoal
    /\ msg = ""
    /\ \E a \in Totals, b \in Totals : arg = [a |-> a, b |-> b]
    /\ ret = <<>>
    /\ ret2 = <<>>

CallLevel ==
    /\ ret = <<>>
    /\ ret' = <<get_level_info(arg.a), get_level_info(arg.b)>>
    /\ UNCHANGED <<arg, ret2, appVars>>

NextLevel == CallLevel

SpecLevel == InitLevel /\ [][NextLevel]_vars

\* ------------------------------ an Aporte appended to a rebuilt goal
\* arg is a goal as the table holds it, rebuilt; ret is what the handler
\* "Registrar" saves after appending an Aporte of amount a at minute g_dt.
InitInsert ==
    /\ users = << >>
    /\ goals = << >>
    /\ salt_file = <<>>
    /\ logged_in = FALSE
    /\ username = ""
    /\ protector = NoKey
    /\ active_goal = NoGoal
    /\ msg = ""
    /\ \E h \in RawHistories :
          arg = rebuild_goal_state(
                    [id |-> "g", nome |-> "Meta", tipo |-> "Patrimônio",
                     objetivo |-> 0, atual |-> 0, historico |-> WithUids(h),
                     is_default |-> FALSE])
    /\ ret = <<>>
    /\ ret2 = <<>>

InsertAporte(a, g_dt) ==
    /\ ret = <<>>
    /\ ret' = <<rebuild_goal_state(
                   [arg EXCEPT !.historico =
                       Append(@, NewEntry(Len(@) + 1, g_dt, "Aporte", a))])>>
    /\ UNCHANGED <<arg, ret2, appVars>>

NextInsert == \E a \in Valores, g_dt \in Datas : InsertAporte(a, g_dt)

SpecInsert == InitInsert /\ [][NextInsert]_vars

\* ============================================================ properties
\* The running balance after the first n entries of h, replayed from 0
\* in the order h gives.
RECURSIVE BalanceAfter(_, _)
BalanceAfter(h, n) ==
    IF n = 0 THEN 0
    ELSE LET prev == BalanceAfter(h, n - 1)
         IN CASE h[n].tipo = "Aporte" -> prev + h[n].valor
              [] h[n].tipo = "Retirada" -> prev - h[n].valor
              [] h[n].tipo = "Ajuste" -> h[n].valor
              [] OTHER -> prev

\* h is a chronological ordering: timestamps ascend.
Chronological(h) == \A i, j \in 1..Len(h) : i < j => h[i].data <= h[j].data

\* The positions of h after which the running balance is below zero.
NegativeAt(h) == {n \in 1..Len(h) : BalanceAfter(h, n) < 0}

Returned == ret # <<>>
Out == ret[1].historico
In == arg.historico

\* out holds the entries of in, each once (valor_acumulado aside).
SameEntries(in, out) ==
    /\ Len(in) = Len(out)
    /\ \A k \in 1..Len(in) :
          Cardinality({i \in 1..Len(out) :
              /\ out[i].uid = in[k].uid /\ out[i].data = in[k].data
              /\ out[i].tipo = in[k].tipo /\ out[i].valor = in[k].valor}) = 1

\* ------------------------------------------------ the stored ledger
\* The goal a row of the table holds, whatever key seals it.
StoredGoal(id) == json_loads(goals[id].encrypted_payload[3])
StoredGoalsOf(u) == {StoredGoal(id) : id \in {i \in DOMAIN goals : goals[i].owner = u}}

\* Replayed in ascending timestamp order from 0, the balance of h dips
\* below zero after some entry.
HasNegativePrefix(h) == NegativeAt(SortHistorico(h)) # {}

EditErr == "Erro: essa alteração deixaria o saldo negativo em algum ponto do histórico!"

\* C1: after any sequence of goal operations, no stored goal has a negative
\* running balance after any entry of its history replayed in ascending
\* timestamp order from 0.
C1_NoNegativeBalance ==
    \A id \in DOMAIN goals : ~HasNegativePrefix(StoredGoal(id).historico)

\* C2: the stored total, opened with the session key, is the sum of atual
\* over the user's stored goals of tipo "Patrimônio".
C2_TotalIsSumOfPatrimonio ==
    logged_in =>
        get_user_patrimony(db, username, protector) =
            SumAtual({m \in StoredGoalsOf(username) : m.tipo = "Patrimônio"})

\* h with entry idx edited, as "Salvar Edição" holds it before the rebuild.
EditedHistorico(h, idx, new_v, new_dt) ==
    [h EXCEPT ![idx].valor = new_v, ![idx].data = new_dt]

\* C3: an edit of an entry (amount, timestamp or both) after which the
\* chronological history has a negative running balance at some entry is
\* rejected with the error, and the tables users and goals stay as they were.
C3_NegativeEditRejected ==
    [][HasActiveGoal =>
        LET h == ActiveGoal.historico
        IN \A idx \in 1..Len(h), new_v \in EditValores, new_dt \in Datas :
              (/\ HasNegativePrefix(EditedHistorico(h, idx, new_v, new_dt))
               /\ SalvarEdicao(idx, new_v, new_dt))
              => (msg' = EditErr /\ users' = users /\ goals' = goals)]_vars

\* An edit was refused on a goal whose stored history is sound and whose
\* last balance the edit would have left at zero or more.
C3_Witness ==
    /\ msg = EditErr
    /\ HasActiveGoal
    /\ Len(ActiveGoal.historico) = 2
    /\ ~HasNegativePrefix(ActiveGoal.historico)
    /\ ActiveGoal.atual > 0

\* C4: deleting an entry whose removal leaves a negative running balance at
\* some remaining entry is rejected: users and goals stay as they were.
C4_NegativeDeleteRejected ==
    [][HasActiveGoal =>
        LET h == ActiveGoal.historico
        IN \A idx \in 1..Len(h) :
              (/\ ~HasNegativePrefix(h)
               /\ HasNegativePrefix(Pop(h, idx))
               /\ ExcluirRegistro(idx))
              => (users' = users /\ goals' = goals)]_vars

\* C5: adding an entry (a Retirada, or a balance correction recorded as one)
\* at a timestamp earlier than existing entries is rejected, and users and
\* goals stay as they were, when some prefix of the resulting chronological
\* history is negative.
C5_BackdatedAddValidated ==
    [][HasActiveGoal =>
        LET h == ActiveGoal.historico
            atual == ActiveGoal.atual
        IN /\ \A tipo \in MovTipos, valor \in InputValores, g_dt \in Datas :
                (/\ ~HasNegativePrefix(h)
                 /\ HasNegativePrefix(Append(h, NewEntry(0, g_dt, tipo, valor)))
                 /\ RegistrarMovimentacao(tipo, valor, g_dt))
                => (users' = users /\ goals' = goals)
           /\ \A saldo \in InputSaldos, g_dt \in Datas :
                (/\ saldo < atual
                 /\ ~HasNegativePrefix(h)
                 /\ HasNegativePrefix(Append(h, NewEntry(0, g_dt, "Retirada",
                                                         atual - saldo)))
                 /\ AplicarBalanco(saldo, g_dt))
                => (users' = users /\ goals' = goals)]_vars

\* C6: in every stored goal, atual is the valor_acumulado of the last entry
\* of the stored history, and 0 when the history is empty.
C6_AtualIsLastAccumulated ==
    \A id \in DOMAIN goals :
        LET g == StoredGoal(id)
        IN g.atual = IF g.historico = <<>> THEN 0
                     ELSE g.historico[Len(g.historico)].valor_acumulado

\* A stored goal holds two entries and a balance that is not zero, and
\* another stored goal is empty.
C6_Witness ==
    /\ \E id \in DOMAIN goals :
          /\ Len(StoredGoal(id).historico) = 2
          /\ StoredGoal(id).atual # 0
          /\ StoredGoal(id).historico[1].valor_acumulado # StoredGoal(id).atual
    /\ \E id \in DOMAIN goals : StoredGoal(id).historico = <<>>

\* C7: whatever the insertion order, rebuild_goal_state leaves the history
\* sorted by timestamp ascending, entries with equal timestamps in their
\* input order, and the accumulated values follow that order; the history
\* (Aporte 2 at t=2, Aporte 1 at t=1) becomes (t=1, acc 1), (t=2, acc 3),
\* current 3.
C7_SortedStableAccumulated ==
    Returned =>
        /\ SameEntries(In, Out)
        /\ Chronological(Out)
        /\ \A i, j \in 1..Len(Out) :
              (i < j /\ Out[i].data = Out[j].data) => Out[i].uid < Out[j].uid
        /\ \A i \in 1..Len(Out) : Out[i].valor_acumulado = BalanceAfter(Out, i)
        /\ (In = <<NewEntry(1, 2, "Aporte", 2), NewEntry(2, 1, "Aporte", 1)>>) =>
              /\ Out = <<[uid |-> 2, data |-> 1, tipo |-> "Aporte", valor |-> 1,
                          valor_acumulado |-> 1],
                         [uid |-> 1, data |-> 2, tipo |-> "Aporte", valor |-> 2,
                          valor_acumulado |-> 3]>>
              /\ ret[1].atual = 3

\* An input out of order that also holds two entries of one timestamp has
\* been rebuilt.
C7_Witness ==
    /\ Returned
    /\ Len(In) = 3
    /\ In[1].data > In[3].data
    /\ In[1].data = In[2].data
    /\ In[1].valor # In[2].valor

\* Position of the last Ajuste of a history, 1 when it has none.
LastAjuste(h) ==
    IF \E i \in 1..Len(h) : h[i].tipo = "Ajuste"
    THEN CHOOSE i \in 1..Len(h) :
            /\ h[i].tipo = "Ajuste"
            /\ \A j \in (i + 1)..Len(h) : h[j].tipo # "Ajuste"
    ELSE 1

\* C8: the accumulated value of an entry is the previous one (0 before the
\* first) plus an Aporte's amount, minus a Retirada's amount, or an Ajuste's
\* amount whatever came before; the current is the fold of the entries from
\* the last Ajuste on.
C8_LeftFold ==
    Returned =>
        /\ \A i \in 1..Len(Out) :
              LET prev == IF i = 1 THEN 0 ELSE Out[i - 1].valor_acumulado
              IN Out[i].valor_acumulado =
                    CASE Out[i].tipo = "Aporte" -> prev + Out[i].valor
                      [] Out[i].tipo = "Retirada" -> prev - Out[i].valor
                      [] Out[i].tipo = "Ajuste" -> Out[i].valor
        /\ ret[1].atual =
              BalanceAfter(SubSeq(Out, LastAjuste(Out), Len(Out)),
                           Len(Out) - LastAjuste(Out) + 1)

\* Two consecutive Ajustes of different amounts follow an Aporte.
C8_Witness ==
    /\ Returned
    /\ Len(Out) = 3
    /\ Out[1].tipo = "Aporte"
    /\ Out[2].tipo = "Ajuste" /\ Out[3].tipo = "Ajuste"
    /\ Out[2].valor # Out[3].valor
    /\ ret[1].atual = Out[3].valor

\* The failure outcome the fold would return; the entry it names.
InvariantViolation(uid) == [error |-> "InvariantViolation", uid |-> uid]

\* C9: when the running total goes negative at a step of the fold, rebuild
\* fails as a whole with an InvariantViolation naming the offending entry,
\* and changes neither an accumulated value nor the current.
C9_NegativeFailsWhole ==
    (Returned /\ NegativeAt(SortHistorico(In)) # {}) =>
        \E n \in NegativeAt(SortHistorico(In)) :
            ret[1] = InvariantViolation(SortHistorico(In)[n].uid)

\* C10: rebuild_goal_state applied to its own output gives that output again:
\* the same order, the same accumulated values, the same current.
C10_Idempotent ==
    ret2 # <<>> =>
        /\ ret2[1].historico = ret[1].historico
        /\ ret2[1].atual = ret[1].atual
        /\ ret2[1] = ret[1]

\* The second call has returned for an input the first call had to reorder
\* and that carried a stale current.
C10_Witness ==
    /\ ret2 # <<>>
    /\ Len(In) >= 2
    /\ In[1].data > In[2].data
    /\ arg.atual # ret[1].atual

\* ------------------------------------------------ a back-dated Aporte
\* Where the appended entry (its uid is the new length) sits after the rebuild.
InsertedAt == CHOOSE i \in 1..Len(Out) : Out[i].uid = Len(In) + 1

\* An Ajuste stands among the entries InsertedAt+1 .. i of the new history.
AjusteBetween(i) == \E j \in (InsertedAt + 1)..i : Out[j].tipo = "Ajuste"

\* C11 as stated: after a back-dated Aporte of amount a is inserted and the
\* goal rebuilt, every chronologically later entry has its former
\* accumulated value plus a, and the current is the former current plus a.
C11_ShiftsEverySubsequent ==
    (Returned /\ InsertedAt < Len(Out)) =>
        /\ \A i \in (InsertedAt + 1)..Len(Out) :
              Out[i].valor_acumulado =
                  In[i - 1].valor_acumulado + Out[InsertedAt].valor
        /\ ret[1].atual = arg.atual + Out[InsertedAt].valor

\* C11: after a back-dated Aporte of amount a is inserted and the goal
\* rebuilt, the entries before it keep their accumulated values, every later
\* entry up to the next Ajuste has its former value plus a, and the entries
\* from that Ajuste on keep theirs; the current is the former current plus a
\* when no Ajuste follows the insertion, and the former current otherwise.
C11_ShiftsUpToNextAjuste ==
    (Returned /\ InsertedAt < Len(Out)) =>
        /\ \A i \in 1..(InsertedAt - 1) : Out[i] = In[i]
        /\ \A i \in (InsertedAt + 1)..Len(Out) :
              /\ Out[i].uid = In[i - 1].uid
              /\ Out[i].valor_acumulado =
                    IF AjusteBetween(i) THEN In[i - 1].valor_acumulado
                    ELSE In[i - 1].valor_acumulado + Out[InsertedAt].valor
        /\ ret[1].atual = IF AjusteBetween(Len(Out)) THEN arg.atual
                          ELSE arg.atual + Out[InsertedAt].valor

\* An Aporte went in first of four; a Retirada behind it moved by its
\* amount and the entry behind an Ajuste did not.
C11_Witness ==
    /\ Returned
    /\ Len(Out) = 4
    /\ InsertedAt = 1
    /\ Out[2].tipo = "Retirada"
    /\ Out[2].valor_acumulado = In[1].valor_acumulado + Out[1].valor
    /\ Out[3].tipo = "Ajuste"
    /\ Out[4].tipo = "Aporte"
    /\ Out[4].valor_acumulado = In[3].valor_acumulado

\* ------------------------------------------------ seal and open
Opened == ret2 # <<>>

\* decrypt was handed the very token encrypt returned.
OpenedSealed == Opened /\ ret2[1] = ret[1]

\* C12: opening, under the key that sealed it, the token of any string
\* gives that string back, in each program that has a DataProtector.
C12_RoundTrip ==
    (OpenedSealed /\ arg.k2 = arg.k1) => ret2[2] = arg.s

\* A token that is not empty was opened with the key that sealed it.
C12_Witness ==
    /\ OpenedSealed
    /\ arg.k2 = arg.k1
    /\ arg.s = json_dumps(default_profile)
    /\ ret[1] # arg.s
    /\ ret2[2] = arg.s

\* C13 as stated: for every string, opening its token with a key other
\* than the one that sealed it gives None.
C13_OtherKeyAlwaysNone ==
    (OpenedSealed /\ arg.k2 # arg.k1) => ret2[2] = None

\* C13: for every string that is not empty, opening its token with a key
\* other than the one that sealed it gives None, never a plaintext.
C13_OtherKeyNone ==
    (OpenedSealed /\ arg.k2 # arg.k1 /\ arg.s # EmptyStr) => ret2[2] = None

\* A token sealed under password pA was handed to the key of password pB,
\* the salt being the same.
C13_Witness ==
    /\ OpenedSealed
    /\ arg.k1 = DeriveKey("pA", "s1")
    /\ arg.k2 = DeriveKey("pB", "s1")
    /\ arg.s = str_float(1)
    /\ ret2[2] = None

\* C14: under every key the empty string seals to the empty token, and the
\* empty token opens to the empty string, not to None, in each program
\* that has a DataProtector.
C14_EmptyIsNoOp ==
    /\ (Returned /\ arg.s = EmptyStr) => ret[1] = EmptyStr
    /\ (Opened /\ ret2[1] = EmptyStr) => ret2[2] = EmptyStr


\* t is a token encrypt makes under key k.
ValidToken(k, t) == \E str \in Plaintexts : t = FernetToken(k, str)

\* C15: for every input that is not empty and is not a token of the key
\* that opens (another key's token, a changed ciphertext, a truncated token,
\* a changed tag, a string that is no token), decrypt returns None, one
\* value for all the causes and never a part of a plaintext.
C15_OneFailureValue ==
    (Opened /\ ret2[1] # EmptyStr /\ ~ValidToken(arg.k2, ret2[1]))
        => ret2[2] = None

\* decrypt was handed a token of its own key whose ciphertext was changed.
C15_Witness ==
    /\ Opened
    /\ arg.k2 = arg.k1
    /\ ret[1] # EmptyStr
    /\ ret2[1] = [ret[1] EXCEPT ![3] = <<"corrupt">>]
    /\ ret2[2] = None

\* ------------------------------------------------------------ login
LoginErr == "Erro no login."

\* The username has a row and the password matches its stored verifier.
Authentic(u, p) == u \in DOMAIN users /\ checkpw(p, users[u].password_hash)

\* C16: a login with an unknown username and one with a known username and
\* a wrong password end alike: the same generic error, the session still
\* logged out, username and protector as they were, both tables and the
\* salt file untouched; a login succeeds only for an existing username with
\* the password of its stored verifier.
C16_LoginFailuresAlike ==
    [][\A u \in LoginUsernames, p \in Passwords :
          Entrar(u, p) =>
              IF Authentic(u, p)
              THEN logged_in' /\ username' = u
              ELSE /\ msg' = LoginErr
                   /\ ~logged_in'
                   /\ UNCHANGED <<users, goals, salt_file, username,
                                  protector, active_goal>>]_vars

\* A login was refused while a user is registered: with her name and the
\* other password, or with the name nobody registered.
C16_Witness ==
    /\ msg = LoginErr
    /\ ~logged_in
    /\ "ana" \in DOMAIN users
    /\ "bia" \notin DOMAIN users
    /\ \E p \in Passwords : ~Authentic("ana", p)

\* ------------------------------------------------ the default goal
\* C17: in a session, the default goal of the user is among the goals
\* get_goals returns, still flagged is_default, and delete_goal on a stored
\* goal of hers that is flagged is_default changes neither table.
C17_DefaultGoalResists ==
    logged_in =>
        /\ \E m \in Metas : m.id = DefaultGoalId(username) /\ m.is_default
        /\ \A id \in DOMAIN goals :
              (goals[id].owner = username /\ StoredGoal(id).is_default)
                  => delete_goal(db, username, id, protector) = db

\* ------------------------------------------------ unreadable records
\* The rows of u whose payload opens under key k.
OpenRows(u, k) ==
    {i \in DOMAIN goals :
        goals[i].owner = u /\ decrypt(k, goals[i].encrypted_payload) # None}

\* C18: whatever key a reader holds, a record that does not open under it
\* is stepped over: get_user_patrimony gives 0, get_user_profile gives
\* default_profile(), and get_goals gives exactly the goals of the rows
\* that do open.
C18_UnreadableFallsBack ==
    \A u \in DOMAIN users, k \in CryptoKeys :
        /\ decrypt(k, users[u].total_patrimony_enc) = None
              => get_user_patrimony(db, u, k) = 0
        /\ decrypt(k, users[u].encrypted_profile) = None
              => get_user_profile(db, u, k) = default_profile
        /\ get_goals(db, u, k) = {StoredGoal(i) : i \in OpenRows(u, k)}

\* In a session, the stored total and one goal of the user do not open
\* under the session key, another goal of hers does, and her profile does
\* not open under some other key.
C18_Witness ==
    /\ logged_in
    /\ decrypt(protector, users[username].total_patrimony_enc) = None
    /\ \E k \in CryptoKeys : decrypt(k, users[username].encrypted_profile) = None
    /\ \E i \in DOMAIN goals : goals[i].owner = username /\ i \notin OpenRows(username, protector)
    /\ OpenRows(username, protector) # {}

\* ------------------------------------------------ amounts
\* C19: every stored entry of tipo Aporte or Retirada has an amount above 0.
C19_PositiveAmounts ==
    \A id \in DOMAIN goals :
        LET h == StoredGoal(id).historico
        IN \A i \in 1..Len(h) :
              h[i].tipo \in {"Aporte", "Retirada"} => h[i].valor > 0

\* ------------------------------------------------ creating a goal
\* The goal the row id of the table holds after the step.
StoredGoalAfter(id) == json_loads(goals'[id].encrypted_payload[3])

\* Whatever key reads it, the total of user u is after the step what it
\* was before.
TotalUnchanged(u) ==
    \A k \in CryptoKeys :
        get_user_patrimony([users |-> users', goals |-> goals'], u, k)
            = get_user_patrimony(db, u, k)

\* C20: a goal created with "Criar Meta", of either tipo, and the default
\* goal created by a registration are stored with atual 0 and an empty
\* history, and the step leaves the stored total of the user as it was.
C20_CreatedEmpty ==
    [][/\ \A n_m \in Nomes, t_m \in GoalTipos, v_m \in Objetivos :
             CriarMeta(n_m, t_m, v_m) =>
                 /\ FreshGoalId \in DOMAIN goals'
                 /\ StoredGoalAfter(FreshGoalId).atual = 0
                 /\ StoredGoalAfter(FreshGoalId).historico = <<>>
                 /\ TotalUnchanged(username)
       /\ \A nu \in Usernames, np \in Passwords :
             RegistrarUsuario(nu, np) =>
                 /\ DefaultGoalId(nu) \in DOMAIN goals'
                 /\ StoredGoalAfter(DefaultGoalId(nu)).atual = 0
                 /\ StoredGoalAfter(DefaultGoalId(nu)).historico = <<>>
                 /\ TotalUnchanged(nu)]_vars

\* ------------------------------------------------ the salt
\* C21: once the salt file holds a salt no step rewrites it; the key of a
\* session is derived from the password of the user's stored verifier and
\* that salt, and every stored token was sealed by a key of that salt.
C21_SaltWrittenOnce ==
    [][/\ salt_file # <<>> => salt_file' = salt_file
       /\ logged_in' =>
             \E p \in Passwords :
                 /\ checkpw(p, users'[username'].password_hash)
                 /\ protector' = DeriveKey(p, salt_file'[1])
       /\ \A id \in DOMAIN goals' :
             goals'[id].encrypted_payload[2][2] = salt_file'[1]
       /\ \A u \in DOMAIN users' :
             users'[u].total_patrimony_enc[2][2] = salt_file'[1]]_vars

\* A session of the second password was opened on the salt the first
\* registration wrote, while os.urandom had another value to offer.
C21_Witness ==
    /\ logged_in
    /\ salt_file = <<"s2">>
    /\ protector = DeriveKey("pB", "s2")
    /\ Cardinality(DOMAIN goals) = 2

\* ------------------------------------------------ levels
\* C22: for every total of 100 or more, get_level_info returns a level
\* L >= 1 whose floor 100 * 2^(L-1) is at most the total, the total is below
\* 100 * 2^L, and the amount to the next level is 100 * 2^L minus the total
\* and above 0; at a threshold 100 * 2^k the level is k + 1, the floor the
\* total and the progress 0; 100 gives level 1, floor 100, 100 to go; 150
\* gives level 1 and progress one half; 200 gives level 2, floor 200,
\* progress 0.
C22_LevelBrackets ==
    (Returned /\ FlLe(LevelMin(0), arg.a)) =>
        LET r == ret[1]
            L == r.level
        IN /\ L >= 1
           /\ r.current_level_min = LevelMin(L - 1)
           /\ FlLe(r.current_level_min, arg.a)
           /\ FlLt(arg.a, LevelMin(L))
           /\ r.needed = FlSub(LevelMin(L), arg.a)
           /\ FlLt(Fl(0, 0), r.needed)
           /\ \A k \in 0..MaxLevel :
                 arg.a = LevelMin(k) =>
                     /\ L = k + 1
                     /\ r.current_level_min = arg.a
                     /\ r.progress.num = Fl(0, 0)
           /\ arg.a = Fl(10000, 0) => r.needed = Fl(10000, 0)
           /\ arg.a = Fl(15000, 0) =>
                 (L = 1 /\ r.progress = [num |-> Fl(5000, 0), den |-> Fl(10000, 0)])
           /\ arg.a = Fl(20000, 0) => (L = 2 /\ r.current_level_min = Fl(20000, 0))

\* C23: of two totals, the one that is not the greater does not get the
\* greater level.
C23_LevelMonotone ==
    (Returned /\ FlLe(arg.a, arg.b)) => ret[1].level <= ret[2].level

\* A total below the base and one in the third bracket were scored.
C23_Witness ==
    /\ Returned
    /\ arg.a = Fl(5000, 0)
    /\ arg.b = Fl(60000, 0)
    /\ ret[1].level = 0
    /\ ret[2].level = 3

\* C24: for every total that is not negative, the progress is at least 0
\* and at most 1.
C24_ProgressInUnitInterval ==
    (Returned /\ FlLe(Fl(0, 0), arg.a)) =>
        /\ FlLe(Fl(0, 0), ret[1].progress.num)
        /\ FlLe(ret[1].progress.num, ret[1].progress.den)

\* C25: for a total of 0, get_level_info returns level 0, floor 0 and 100
\* as the amount to the next level.
C25_ZeroTotal ==
    (Returned /\ arg.a = Fl(0, 0)) =>
        /\ ret[1].level = 0
        /\ ret[1].current_level_min = Fl(0, 0)
        /\ ret[1].needed = Fl(10000, 0)

\* ------------------------------------------------ registering twice
RegisterErr == "Usuário já existe ou erro no registro."

\* C26: a "Registrar" with a username that is already registered reports
\* the failure and leaves the users table, the goals table and the salt
\* file as they were.
C26_DuplicateRegistrationInert ==
    [][\A nu \in Usernames, np \in Passwords :
          (RegistrarUsuario(nu, np) /\ nu \in DOMAIN users) =>
              /\ msg' = RegisterErr
              /\ users' = users
              /\ goals' = goals
              /\ salt_file' = salt_file]_vars

\* ------------------------------------------------ one key per user
\* The key a login of u with the registered password derives.
RegisteredKey(u) ==
    DeriveKey(CHOOSE p \in Passwords : checkpw(p, users[u].password_hash),
              salt_file[1])

\* C27: every goal payload, the profile and the total stored for a user
\* open under the key of her registered password, and what that key reads
\* is all her goals and the sum of atual over her goals of tipo
\* "Patrimônio".
C27_RecordsOpenUnderRegisteredKey ==
    \A u \in DOMAIN users :
        LET key == RegisteredKey(u)
        IN /\ \A id \in DOMAIN goals :
                 goals[id].owner = u =>
                     decrypt(key, goals[id].encrypted_payload) # None
           /\ decrypt(key, users[u].encrypted_profile) # None
           /\ decrypt(key, users[u].total_patrimony_enc) # None
           /\ get_goals(db, u, key) = StoredGoalsOf(u)
           /\ get_user_patrimony(db, u, key) =
                 SumAtual({m \in StoredGoalsOf(u) : m.tipo = "Patrimônio"})

\* ------------------------------------------------ editing a goal
\* C28: "Salvar Alterações", "Dobrar Meta (2x)" and "Aumentar 50% (1.5x)"
\* leave the stored goal with the atual and the history, every
\* valor_acumulado included, that it had, and leave the stored total of the
\* user as it was.
C28_MetadataLeavesBalance ==
    [][((\E new_n \in Nomes, new_o \in EditObjetivos : SalvarAlteracoes(new_n, new_o))
        \/ DobrarMeta \/ AumentarMeta) =>
           /\ active_goal \in DOMAIN goals'
           /\ StoredGoalAfter(active_goal).atual = ActiveGoal.atual
           /\ StoredGoalAfter(active_goal).historico = ActiveGoal.historico
           /\ TotalUnchanged(username)]_vars

\* ------------------------------------------------ the balance correction
\* The entries of after that before does not hold, by uid.
NewEntries(before, after) ==
    {i \in 1..Len(after) : \A k \in 1..Len(before) : before[k].uid # after[i].uid}

\* Every entry of before is in after with its timestamp, tipo and amount.
KeepsEntries(before, after) ==
    \A k \in 1..Len(before) :
        \E i \in 1..Len(after) :
            /\ after[i].uid = before[k].uid /\ after[i].data = before[k].data
            /\ after[i].tipo = before[k].tipo /\ after[i].valor = before[k].valor

\* What a run of "Aplicar Balanço" may report.
BalancoMsgs ==
    {"Nenhuma correção necessária.", "Balanço aplicado!",
     "Operação negada! A correção deixaria saldo negativo."}

NegadaMsg == "Operação negada! Saldo insuficiente"
ZeroMsg == "O valor precisa ser maior que zero."

\* C30: "Registrar" with a Retirada of more than the atual of the goal is
\* refused: it changes neither the goals table nor the users table, so no
\* entry is appended and the stored total stays, and it reports "Operação
\* negada" (an amount of 0, which only a negative atual makes the greater,
\* is reported as not above zero).
C30_OverdraftRefused ==
    [][HasActiveGoal =>
          \A valor \in InputValores, g_dt \in Datas :
              (/\ msg' \in {NegadaMsg, ZeroMsg, ""}
               /\ valor > ActiveGoal.atual
               /\ RegistrarMovimentacao("Retirada", valor, g_dt))
              => /\ msg' = (IF valor > 0 THEN NegadaMsg ELSE ZeroMsg)
                 /\ goals' = goals
                 /\ users' = users]_vars

\* A Retirada of 2 was refused on a goal that holds 1.
C30_Witness ==
    /\ msg = NegadaMsg
    /\ HasActiveGoal
    /\ ActiveGoal.atual = 1
    /\ Len(ActiveGoal.historico) = 1
====
